---- MODULE Spec2Model ----
\* Model of jsoncomplete.py: QueristValidator, a JSON-schema validator that
\* repairs the document it validates.  The extended validator's error stream
\* (set_defaults / required_default_d4 on top of Draft4Validator) is consumed
\* lazily by QueristValidator.iter_errors, one signal per step.
EXTENDS Integers, Sequences, FiniteSets, TLC

VARIABLES
    schema,     \* which of Schemas was handed to QueristValidator.__init__
    answers,    \* self._answers : key_path -> identity value -> property -> answer
    questions,  \* self._questions : property path -> None | (question, default_value)
    keys,       \* self._keys : key_path -> identity property | None
    doc,        \* the container instance under validation (mutated in place)
    docIn,      \* the container instance as it was handed to the running call
    mode,       \* "validate" or "iter_errors": who consumes the generator
    status,     \* "idle" | "running" | "done" | "raised" | "crashed"
    exc,        \* the internal exception that ended the call, "" when none
    cur,        \* position of the extended validator's generator in Plan
    pending,    \* errors of the property being descended into, not yet yielded
    out,        \* the errors yielded to the caller by the running call
    ev,         \* what the last processed signal did (observation of the step)
    calls,      \* number of validate / iter_errors calls started
    unsaved,    \* the running call asked a question whose answer was not stored
    file,       \* the answers file on disk, NoFile when it does not exist
    dumped,     \* self._answers of the validator that wrote the file, as dumped
    gen,        \* 1: the validator constructed first, 2: the one loaded from file
    con,        \* the running call of ConsoleQuestion.ask, if any
    hist,       \* the records validated before the dump, with their results
    replay      \* number of records replayed on the validator loaded from file

vars == <<schema, answers, questions, keys, doc, docIn, mode, status, exc,
          cur, pending, out, ev, calls, unsaved, file, dumped, gen, con, hist, replay>>

\* ---------------------------------------------------------------- bounds

MaxCalls == 2

\* ---------------------------------------------------------------- values
\* JSON / Python values are tagged tuples, so that values of different types
\* are never equal.

None == <<"none">>
S(x) == <<"str", x>>
I(n) == <<"int", n>>
L(xs) == <<"list", xs>>

is_type(v, t) ==
    CASE t = "string"  -> v[1] = "str"
      [] t = "integer" -> v[1] = "int"
      [] t = "array"   -> v[1] = "list"
      [] t = "object"  -> v[1] = "dict"
      [] t = "null"    -> v[1] = "none"
      [] OTHER         -> FALSE

\* dict.get(key, default)
Get(d, k, dflt) == IF k \in DOMAIN d THEN d[k] ELSE dflt

\* d[k] = v on a dict
Put(d, k, v) == [x \in DOMAIN d \cup {k} |-> IF x = k THEN v ELSE d[x]]

EmptyDict == [x \in {} |-> None]

Range(s) == {s[i] : i \in DOMAIN s}

\* The path segment of an array index; a dict with property names as keys
\* never holds it.
Idx(i) == IF i = 1 THEN "[0]" ELSE "[1]"

\* ---------------------------------------------------------------- schema
\* The container schema (the "fields" object of the test fixtures): the
\* identity property account_name, the enumerated required account_type with
\* a question, initial_amount with a static default, the required fk_owner
\* without a default block, and an array property without one, whose items
\* may have a static default of their own.

ContainerPath == <<"fields">>

PropOrder == <<"account_name", "account_type", "initial_amount", "fk_owner", "tags">>

Required == <<"fk_owner", "account_type">>

Properties(keyed, item_default) ==
    [account_name   |-> [type |-> "string",
                         default |-> IF keyed
                                     THEN [question |-> S("name?"), key_field |-> TRUE]
                                     ELSE [question |-> S("name?"), key_field |-> FALSE]],
     account_type   |-> [type |-> "string", enum |-> <<S("OW"), S("CC")>>,
                         default |-> IF keyed
                                     THEN [question |-> S("type of {key_value}?"),
                                           key_field |-> TRUE]
                                     ELSE [question |-> S("type of {key_value}?")]],
     initial_amount |-> [type |-> "integer", default |-> [value |-> I(0)]],
     fk_owner       |-> [type |-> "integer", enum |-> <<I(1), I(2)>>],
     tags           |-> [type |-> "array",
                         items |-> IF item_default
                                   THEN [type |-> "integer", default |-> [value |-> I(0)]]
                                   ELSE [type |-> "integer"]]]

\* A schema is a dict; the order of its keys is the order in which the
\* validator visits its keywords.
Schema(keyed, kws, item_default) ==
    [keywords |-> kws, properties |-> Properties(keyed, item_default),
     required |-> Required]

\* The schemas a validator is constructed with: with identity properties
\* and either order of the keywords, without an identity property, and with
\* a default for the items of the array.
Schemas ==
    { [keyed |-> TRUE,  keywords |-> <<"properties", "required">>, item_default |-> FALSE],
      [keyed |-> TRUE,  keywords |-> <<"required", "properties">>, item_default |-> FALSE],
      [keyed |-> FALSE, keywords |-> <<"properties", "required">>, item_default |-> FALSE],
      [keyed |-> TRUE,  keywords |-> <<"properties", "required">>, item_default |-> TRUE] }

SchemaTable == [s \in Schemas |-> Schema(s.keyed, s.keywords, s.item_default)]

\* self._schema
TheSchema == SchemaTable[schema]

\* The values a document may hold for each property; Absent: the key is missing.
Absent == <<"absent">>

Choices ==
    [account_name   |-> {Absent, S("a"), S("b"), None},
     account_type   |-> {Absent, S("OW"), S("XX"), None},
     initial_amount |-> {Absent, I(0), None},
     fk_owner       |-> {Absent, I(1), None},
     tags           |-> {L(<<I(1)>>), L(<<S("x")>>)}]

MkDoc(c) == [p \in {q \in DOMAIN c : c[q] # Absent} |-> c[p]]

Docs ==
    { MkDoc([account_name |-> n, account_type |-> t, initial_amount |-> a,
             fk_owner |-> o, tags |-> g]) :
        n \in Choices.account_name, t \in Choices.account_type,
        a \in Choices.initial_amount, o \in Choices.fk_owner, g \in Choices.tags }

\* ------------------------------------------------- base validation engine
\* Draft4Validator.iter_errors(value, fragment): one error per violated
\* keyword, in the order of the fragment's keywords; each error carries the
\* path below the value and the fragment in force.

Err(validator, path, frag) == [validator |-> validator, path |-> path, schema |-> frag]

TypeErrors(v, frag) ==
    IF "type" \in DOMAIN frag /\ ~is_type(v, frag.type)
    THEN <<Err("type", <<>>, frag)>> ELSE <<>>

EnumErrors(v, frag) ==
    IF "enum" \in DOMAIN frag /\ v \notin Range(frag.enum)
    THEN <<Err("enum", <<>>, frag)>> ELSE <<>>

RECURSIVE ItemErrors(_, _, _)
ItemErrors(xs, i, frag) ==
    IF i > Len(xs) THEN <<>>
    ELSE LET here == TypeErrors(xs[i], frag) \o EnumErrors(xs[i], frag)
         IN [k \in 1..Len(here) |-> Err(here[k].validator, <<Idx(i)>>, frag)]
            \o ItemErrors(xs, i + 1, frag)

ItemsErrors(v, frag) ==
    IF "items" \in DOMAIN frag /\ is_type(v, "array")
    THEN ItemErrors(v[2], 1, frag.items) ELSE <<>>

Violations(v, frag) == TypeErrors(v, frag) \o EnumErrors(v, frag) \o ItemsErrors(v, frag)

\* ------------------------------------------------------------ error model
\* A signal of the extended validator: cls is the error class, property the
\* `property` keyword argument (DefaultHandler, RequiredError), path the
\* error's path from the root, schema the error's schema (the container's
\* for DefaultHandler and RequiredError, the fragment in force for a
\* PropertyError).

Signal(cls, property, path, sch, validator) ==
    [cls |-> cls, property |-> property, path |-> path, schema |-> sch,
     validator |-> validator]

get_property(e) ==
    IF e.cls = "PropertyError" THEN e.path[Len(e.path)] ELSE e.property

get_property_schema(e) ==
    IF e.cls = "PropertyError" THEN e.schema
    ELSE Get(Get(e.schema, "properties", EmptyDict), e.property, EmptyDict)

get_property_path(e) ==
    IF e.cls = "PropertyError" THEN e.path ELSE e.path \o <<e.property>>

\* ------------------------------------------------------ validator extension
\* The extended validator visits the container's keywords in schema order.
\* "properties" (set_defaults): first a DefaultHandler for every absent
\* property with a "default", then the base check of every present property,
\* each violation wrapped as a PropertyError.  "required"
\* (required_default_d4): a RequiredError for every absent required property.
\* Plan lists these positions; the generator is lazy, so whether a position
\* emits is decided from the document as it is when the generator gets there.

Pos(kind, prop) == [kind |-> kind, prop |-> prop]

set_defaults(sch) ==
    [i \in 1..Len(PropOrder) |-> Pos("default", PropOrder[i])]
    \o [i \in 1..Len(PropOrder) |-> Pos("check", PropOrder[i])]

required_default_d4(sch) ==
    [i \in 1..Len(sch.required) |-> Pos("required", sch.required[i])]

RECURSIVE PlanFrom(_, _)
PlanFrom(sch, k) ==
    IF k > Len(sch.keywords) THEN <<>>
    ELSE (IF sch.keywords[k] = "properties" THEN set_defaults(sch)
          ELSE required_default_d4(sch)) \o PlanFrom(sch, k + 1)

PlanTable == [s \in Schemas |-> PlanFrom(SchemaTable[s], 1)]

\* The positions of the generator for schema sch, in order.
Plan(sch) == PlanTable[[keyed |-> sch.properties.account_name.default.key_field,
                        keywords |-> sch.keywords,
                        item_default |-> "default" \in DOMAIN sch.properties.tags.items]]

\* A DefaultHandler is emitted for every property with a "default", absent
\* or not.
Emits_present(pos, inst, sch) ==
    CASE pos.kind = "default" ->
            "default" \in DOMAIN sch.properties[pos.prop]
      [] pos.kind = "check" ->
            pos.prop \in DOMAIN inst
            /\ Violations(inst[pos.prop], sch.properties[pos.prop]) # <<>>
      [] pos.kind = "required" ->
            pos.prop \notin DOMAIN inst

Emits(pos, inst, sch) ==
    CASE pos.kind = "default" ->
            pos.prop \notin DOMAIN inst /\ "default" \in DOMAIN sch.properties[pos.prop]
      [] pos.kind = "check" ->
            pos.prop \in DOMAIN inst
            /\ Violations(inst[pos.prop], sch.properties[pos.prop]) # <<>>
      [] pos.kind = "required" ->
            pos.prop \notin DOMAIN inst

\* The first position at or after c that emits, 0 when the stream is exhausted.
NextPos(c, inst, sch) ==
    LET plan == Plan(sch)
        cand == {j \in c..Len(plan) : Emits(plan[j], inst, sch)}
    IN IF cand = {} THEN 0 ELSE CHOOSE j \in cand : \A k \in cand : j <= k

\* PropertyError.create_from(error).with_root(schema, instance)
PropertyError(prop, err) ==
    Signal("PropertyError", "", ContainerPath \o <<prop>> \o err.path, err.schema,
           err.validator)

\* The signal emitted at position j, when nothing is pending.
SignalAt(j, inst, sch) ==
    LET pos == Plan(sch)[j] IN
    CASE pos.kind = "default" ->
            Signal("DefaultHandler", pos.prop, ContainerPath, sch, "properties")
      [] pos.kind = "required" ->
            Signal("RequiredError", pos.prop, ContainerPath, sch, "required")
      [] pos.kind = "check" ->
            PropertyError(pos.prop, Head(Violations(inst[pos.prop], sch.properties[pos.prop])))

\* ----------------------------------------------------------------- Question

NoQuestion == [kind |-> "None"]

\* "{}".format(index): the decimal text of a number.
DigitChar(d) ==
    CASE d = 0 -> "0" [] d = 1 -> "1" [] d = 2 -> "2" [] d = 3 -> "3" [] d = 4 -> "4"
      [] d = 5 -> "5" [] d = 6 -> "6" [] d = 7 -> "7" [] d = 8 -> "8" [] d = 9 -> "9"

RECURSIVE Numeral(_)
Numeral(n) ==
    IF n < 10 THEN <<DigitChar(n)>> ELSE Numeral(n \div 10) \o <<DigitChar(n % 10)>>

\* self._choices = None
NoChoices == <<>>

\* Question._create_choices_str(enum, dictionary): for each value of the
\* enum, numbered from 1, the text "index. label", the label being the
\* dictionary's for the value when it has one and the value otherwise.  The
\* texts are kept as a list; the string joins them with ", ".
create_choices_str(enum, default) ==
    [k \in 1..Len(enum) |->
        S(Numeral(k) \o <<".", " ">>
          \o (IF "dictionary" \in DOMAIN default
                 /\ enum[k] \in DOMAIN default.dictionary
                 /\ default.dictionary[enum[k]] \notin {None, S(<<>>)}
              THEN default.dictionary[enum[k]][2]
              ELSE enum[k][2]))]

\* Question.__init__
Question(default, prop_type, prop_enum, required, correction) ==
    [kind |-> "Question",
     default_value |-> Get(default, "value", None),
     correction |-> correction,
     enum |-> prop_enum,
     question |-> Get(default, "question", None),
     required |-> required,
     type |-> prop_type,
     choices |-> IF prop_enum # <<>> /\ Get(default, "show_choices", FALSE)
                 THEN create_choices_str(prop_enum, default)
                 ELSE NoChoices]

\* What ask may return: None (the escape command), an accepted value, and for
\* an enumerated property the empty string (the attempts exhausted).
AskReplies(question) ==
    {None} \cup (IF question.enum # <<>> THEN {S(""), question.enum[1]} ELSE {S("a")})

\* ------------------------------------------------------- ConsoleQuestion
\* Console texts are strings of characters, S(<<"O", "W">>); B(b) is a bool.

B(b) == <<"bool", b>>

\* Question._max_iterations
max_iterations == 5

\* ConsoleQuestion.CMD_BREAK_ANSWER
CMD_BREAK_ANSWER == S(<<"\\", "q">>)

\* The truth value Python gives a value in a condition.
truthy(v) == ~(v = None \/ v = S(<<>>) \/ v = I(0) \/ v = B(FALSE))

Digits == {"0", "1", "2", "3", "4", "5", "6", "7", "8", "9"}

DigitValue(c) ==
    CASE c = "0" -> 0 [] c = "1" -> 1 [] c = "2" -> 2 [] c = "3" -> 3 [] c = "4" -> 4
      [] c = "5" -> 5 [] c = "6" -> 6 [] c = "7" -> 7 [] c = "8" -> 8 [] c = "9" -> 9

RECURSIVE DecimalValue(_)
DecimalValue(chars) ==
    IF chars = <<>> THEN 0
    ELSE 10 * DecimalValue(SubSeq(chars, 1, Len(chars) - 1))
         + DigitValue(chars[Len(chars)])

\* int(answer): the number a decimal text stands for, ValueError for any
\* other text, TypeError for None.
int(answer) ==
    CASE answer[1] = "str" ->
            IF answer[2] # <<>> /\ \A k \in DOMAIN answer[2] : answer[2][k] \in Digits
            THEN [exc |-> "", value |-> DecimalValue(answer[2])]
            ELSE [exc |-> "ValueError", value |-> 0]
      [] answer[1] = "int" -> [exc |-> "", value |-> answer[2]]
      [] answer[1] = "bool" -> [exc |-> "", value |-> IF answer[2] THEN 1 ELSE 0]
      [] OTHER -> [exc |-> "TypeError", value |-> 0]

\* A call of ConsoleQuestion.ask: where it stands, the Question, whether
\* the inputs are generated (AutoAnswers), the number of inputs read, the
\* last input, and the answer returned or the exception raised.
Session(pc, question, auto, i, input, answer, raised) ==
    [pc |-> pc, question |-> question, auto |-> auto, i |-> i, input |-> input,
     answer |-> answer, exc |-> raised]

NoSession == Session("idle", NoQuestion, FALSE, 0, None, None, "")

\* self._enum[int(answer)] in the try block: the selected value, a retry on
\* TypeError, any other exception raised out of ask.
Choose(question, answer) ==
    LET n == int(answer) IN
    IF n.exc = "TypeError" THEN [pc |-> "retry", answer |-> answer, exc |-> ""]
    ELSE IF n.exc # "" THEN [pc |-> "raised", answer |-> None, exc |-> n.exc]
    ELSE IF n.value < Len(question.enum)
    THEN [pc |-> "returned", answer |-> question.enum[n.value + 1], exc |-> ""]
    ELSE [pc |-> "raised", answer |-> None, exc |-> "IndexError"]

\* The body of the loop of ask for the input answer: break with the answer
\* ("returned"), go on with the next iteration ("retry"), or an exception.
Iteration(question, answer) ==
    IF answer = CMD_BREAK_ANSWER
    THEN [pc |-> "returned", answer |-> None, exc |-> ""]
    ELSE IF answer = S(<<>>)
    THEN IF truthy(question.default_value)
         THEN [pc |-> "returned", answer |-> question.default_value, exc |-> ""]
         ELSE IF ~question.required
         THEN [pc |-> "returned", answer |-> answer, exc |-> ""]
         ELSE [pc |-> "retry", answer |-> answer, exc |-> ""]
    ELSE IF question.enum # <<>>
    THEN IF answer \in Range(question.enum)
         THEN [pc |-> "returned", answer |-> answer, exc |-> ""]
         ELSE Choose(question, answer)
    ELSE [pc |-> "returned", answer |-> answer, exc |-> ""]

\* The session after one more input was read and the loop body ran on it;
\* the else clause of the loop gives the empty string when the iterations
\* are used up.
Read(c, answer) ==
    LET b == Iteration(c.question, answer) IN
    IF b.pc = "retry"
    THEN IF c.i + 1 >= max_iterations
         THEN Session("returned", c.question, c.auto, c.i + 1, answer, S(<<>>), "")
         ELSE Session("reading", c.question, c.auto, c.i + 1, answer, None, "")
    ELSE Session(b.pc, c.question, c.auto, c.i + 1, answer, b.answer, b.exc)

\* AutoAnswers._random_word(length), over the two ends of the alphabet.
random_word(length) == { S([k \in 1..length |-> c]) : c \in {"a", "z"} }

\* AutoAnswers._random_answer: what the generated input may be.
random_answer(question) ==
    IF question.enum # <<>> THEN Range(question.enum)
    ELSE CASE question.type = "integer" -> {I(0), I(1000)}
           [] question.type = "string" -> random_word(10)
           [] question.type = "bool" -> {B(TRUE), B(FALSE)}
           [] OTHER -> {S(<<>>)}

\* ------------------------------------------------- resolution of defaults

\* The key that is no property name: _get_key's None.
NoKey == "<None>"

\* The scan goes on after a property that sets key_field: the last one wins.
RECURSIVE get_key_last(_, _)
get_key_last(properties, i) ==
    IF i > Len(PropOrder) THEN NoKey
    ELSE LET subschema == properties[PropOrder[i]]
             default == Get(subschema, "default", None)
             later == get_key_last(properties, i + 1)
         IN IF later # NoKey THEN later
            ELSE IF "default" \in DOMAIN subschema /\ Get(default, "key_field", FALSE)
            THEN PropOrder[i]
            ELSE NoKey

\* QueristValidator._get_key: the first property, in declaration order,
\* whose default block sets key_field.
RECURSIVE get_key_from(_, _)
get_key_from(properties, i) ==
    IF i > Len(PropOrder) THEN NoKey
    ELSE LET subschema == properties[PropOrder[i]]
             default == Get(subschema, "default", None)
         IN IF "default" \in DOMAIN subschema /\ Get(default, "key_field", FALSE)
            THEN PropOrder[i]
            ELSE get_key_from(properties, i + 1)

get_key(properties) == get_key_from(properties, 1)

\* Lookup that never finds the cached answer.
Lookup_miss(yet_answered, prop) == [found |-> FALSE, value |-> None]

\* The answer cached for prop under the identity value, looked up in the
\* per-identity dict: [found, value].
Lookup(yet_answered, prop) ==
    IF prop \in DOMAIN yet_answered
    THEN [found |-> TRUE, value |-> yet_answered[prop]]
    ELSE [found |-> FALSE, value |-> None]

\* The answer is kept whatever it is, None included.
Store_any(yet_answered, prop, answer) == Put(yet_answered, prop, answer)

\* The answer is not kept.
Store_drop(yet_answered, prop, answer) == yet_answered

\* yet_answered[prop] = answer, only for an answer that is not None
Store(yet_answered, prop, answer) ==
    IF answer # None THEN Put(yet_answered, prop, answer) ELSE yet_answered

\* QueristValidator._ask.  reply is what question.ask returns if it is invoked.
\* Result: exc ("" or "KeyError"), the caches as the call leaves them, the
\* answer, whether ask was invoked, the identity value and whether the
\* answer came from the cache.
ask(ans, ks, path, e, inst, sch, question, reply) ==
    LET key_path == SubSeq(path, 1, Len(path) - 1)
        ans1 == IF key_path \in DOMAIN ans THEN ans ELSE Put(ans, key_path, EmptyDict)
        ks1 == IF key_path \in DOMAIN ks THEN ks
               ELSE Put(ks, key_path, get_key(Get(sch, "properties", EmptyDict)))
        key == ks1[key_path]
        prop == get_property(e)
    IN IF key \notin DOMAIN inst
       THEN [exc |-> "KeyError", answers |-> ans1, keys |-> ks1, answer |-> None,
             asked |-> FALSE, kv |-> None, hit |-> FALSE]
       ELSE LET key_value == inst[key] IN
            IF key_value # None
            THEN LET ans2 == IF key_value \in DOMAIN ans1[key_path] THEN ans1
                             ELSE Put(ans1, key_path, Put(ans1[key_path], key_value, EmptyDict))
                     yet_answered == ans2[key_path][key_value]
                     cached == Lookup(yet_answered, prop)
                 IN IF cached.found
                    THEN [exc |-> "", answers |-> ans2, keys |-> ks1,
                          answer |-> cached.value, asked |-> FALSE,
                          kv |-> key_value, hit |-> TRUE]
                    ELSE [exc |-> "",
                          answers |-> Put(ans2, key_path,
                                          Put(ans2[key_path], key_value,
                                              Store(yet_answered, prop, reply))),
                          keys |-> ks1, answer |-> reply, asked |-> TRUE,
                          kv |-> key_value, hit |-> FALSE]
            ELSE [exc |-> "", answers |-> ans1, keys |-> ks1, answer |-> reply,
                  asked |-> TRUE, kv |-> None, hit |-> FALSE]

\* self._questions[path]: None, or the pair (question, default_value)
NoRemediation == [kind |-> "None"]
Pair(question, default_value) ==
    [kind |-> "pair", question |-> question, default_value |-> default_value]

\* The value _resolve_default assigns to the property: the answer of the
\* question path when there is a question, the static default otherwise.
Resolved(question, answer, default_value) ==
    IF question.kind = "Question" THEN answer ELSE default_value

\* What _resolve_default leaves when it assigns nothing.
Quiet(qs, ans, ks, inst) ==
    [exc |-> "", ret |-> FALSE, questions |-> qs, answers |-> ans,
     keys |-> ks, inst |-> inst, asked |-> FALSE, made |-> FALSE,
     kv |-> None, hit |-> FALSE, wrote |-> FALSE, value |-> None]

\* The result of _ask when there is no question to ask.
NotAsked(ans, ks) ==
    [exc |-> "", answers |-> ans, keys |-> ks, answer |-> None,
     asked |-> FALSE, kv |-> None, hit |-> FALSE]

\* The last line of _resolve_default: the value obtained (a, the outcome of
\* _ask when there is a question) is assigned to the property.
Assign(qs1, ks, inst, property_name, question, default_value, made, a) ==
    IF a.exc # ""
    THEN [Quiet(qs1, a.answers, a.keys, inst) EXCEPT !.exc = a.exc, !.made = made]
    ELSE [exc |-> "", ret |-> TRUE, questions |-> qs1,
          answers |-> a.answers, keys |-> a.keys,
          inst |-> Put(inst, property_name, Resolved(question, a.answer, default_value)),
          asked |-> a.asked, made |-> made, kv |-> a.kv, hit |-> a.hit,
          wrote |-> TRUE, value |-> Resolved(question, a.answer, default_value)]

\* The path is looked up anew although self._questions has it.
Entry_recreate(qs, path, property_schema, required, correction) ==
    LET default == Get(property_schema, "default", EmptyDict) IN
    [fresh |-> TRUE,
     question |-> IF "question" \in DOMAIN default
                  THEN Question(default, Get(property_schema, "type", ""),
                                Get(property_schema, "enum", <<>>), required, correction)
                  ELSE NoQuestion,
     default_value |-> Get(default, "value", None)]

\* The question and the static default of the path: created from the
\* default block when the path is new (fresh), taken from self._questions
\* otherwise.
Entry(qs, path, property_schema, required, correction) ==
    IF path \in DOMAIN qs
    THEN [fresh |-> FALSE, question |-> qs[path].question,
          default_value |-> qs[path].default_value]
    ELSE LET default == Get(property_schema, "default", EmptyDict) IN
         [fresh |-> TRUE,
          question |-> IF "question" \in DOMAIN default
                       THEN Question(default, Get(property_schema, "type", ""),
                                     Get(property_schema, "enum", <<>>), required,
                                     correction)
                       ELSE NoQuestion,
          default_value |-> Get(default, "value", None)]

\* _resolve_default once the entry of the path is at hand.
ResolveWith(qs, ans, ks, e, inst, sch, reply, path, entry) ==
    Assign(IF entry.fresh
           THEN Put(qs, path, Pair(entry.question, entry.default_value)) ELSE qs,
           ks, inst, get_property(e), entry.question, entry.default_value,
           entry.fresh /\ entry.question.kind = "Question",
           IF entry.question.kind = "Question"
           THEN ask(ans, ks, path, e, inst, sch, entry.question, reply)
           ELSE NotAsked(ans, ks))

\* QueristValidator._resolve_default.  Result: exc ("", "KeyError",
\* "TypeError"), the return value, the caches and the instance as the call
\* leaves them, and what it did.
resolve_default(qs, ans, ks, e, inst, sch, reply) ==
    IF get_property_path(e) \notin DOMAIN qs
       /\ "default" \notin DOMAIN get_property_schema(e)
    THEN [Quiet(qs, ans, ks, inst) EXCEPT
              !.questions = Put(qs, get_property_path(e), NoRemediation)]
    ELSE IF get_property_path(e) \in DOMAIN qs /\ qs[get_property_path(e)].kind = "None"
    THEN [Quiet(qs, ans, ks, inst) EXCEPT !.exc = "TypeError"]
    ELSE ResolveWith(qs, ans, ks, e, inst, sch, reply, get_property_path(e),
                     Entry(qs, get_property_path(e), get_property_schema(e),
                           e.cls = "RequiredError", e.cls # "DefaultHandler"))

\* ------------------------------------------------------------- iter_errors

\* An error yielded to the caller: its class, the property path of the
\* signal it was yielded for, its own path and the violated keyword.
Yielded(cls, at, path, validator) ==
    [cls |-> cls, at |-> at, path |-> path, validator |-> validator]

\* yield error
Surface(e) == <<Yielded(e.cls, get_property_path(e), e.path, e.validator)>>

\* yield from self.base_validator.iter_errors(instance[property_name], subschema)
Recheck(e, value, subschema) ==
    LET errs == Violations(value, subschema)
    IN [k \in 1..Len(errs) |->
            Yielded("ValidationError", get_property_path(e), errs[k].path,
                    errs[k].validator)]

\* No required error is passed on without resolution.
Unrecoverable_never(is_required_error, subschema) == FALSE

\* Whether the required error is passed on without resolution.
Unrecoverable(is_required_error, subschema) ==
    is_required_error /\ ~("default" \in DOMAIN subschema)

\* The required error is passed on after resolution whether or not the
\* property was filled.
AfterResolve_required(e, r) ==
    IF r.exc # "" THEN <<>>
    ELSE IF e.cls = "RequiredError"
    THEN Surface(e)
    ELSE IF get_property(e) \in DOMAIN r.inst
    THEN Recheck(e, r.inst[get_property(e)], get_property_schema(e))
    ELSE <<>>

\* What the loop body yields after _resolve_default returned r.
AfterResolve(e, r) ==
    IF r.exc # "" THEN <<>>
    ELSE IF e.cls = "RequiredError" /\ get_property(e) \notin DOMAIN r.inst
    THEN Surface(e)
    ELSE IF get_property(e) \in DOMAIN r.inst
    THEN Recheck(e, r.inst[get_property(e)], get_property_schema(e))
    ELSE <<>>

\* The loop body from the call of _resolve_default on.
Resolution(e, r) ==
    [exc |-> r.exc, questions |-> r.questions, answers |-> r.answers,
     keys |-> r.keys, inst |-> r.inst, yielded |-> AfterResolve(e, r),
     resolved |-> TRUE, ret |-> r.ret, asked |-> r.asked, made |-> r.made,
     kv |-> r.kv, hit |-> r.hit, wrote |-> r.wrote, value |-> r.value]

\* The body of the loop of QueristValidator.iter_errors for one signal e.
\* Result: the internal exception if any, the caches and the instance as the
\* body leaves them, the errors it yields, and what the resolution did.
iter_errors_body(qs, ans, ks, e, inst, sch, reply) ==
    IF Unrecoverable(e.cls = "RequiredError", get_property_schema(e))
    THEN [exc |-> "", questions |-> qs, answers |-> ans, keys |-> ks,
          inst |-> inst, yielded |-> Surface(e), resolved |-> FALSE,
          ret |-> FALSE, asked |-> FALSE, made |-> FALSE, kv |-> None,
          hit |-> FALSE, wrote |-> FALSE, value |-> None]
    ELSE Resolution(e, resolve_default(qs, ans, ks, e, inst, sch, reply))

\* The observation of a step: the signal and what its processing did.
NoEvent ==
    [cls |-> "", path |-> <<>>, prop |-> "", hadDefault |-> FALSE,
     resolved |-> FALSE, ret |-> FALSE, asked |-> FALSE, made |-> FALSE,
     kv |-> None, hit |-> FALSE, wrote |-> FALSE, value |-> None, yielded |-> <<>>]

Event(e, b) ==
    [cls |-> e.cls, path |-> get_property_path(e), prop |-> get_property(e),
     hadDefault |-> "default" \in DOMAIN get_property_schema(e),
     resolved |-> b.resolved, ret |-> b.ret, asked |-> b.asked, made |-> b.made,
     kv |-> b.kv, hit |-> b.hit, wrote |-> b.wrote, value |-> b.value,
     yielded |-> b.yielded]

\* pickle.dump of a dict of dicts of dicts: the stream of its items, each
\* key followed by the stream of the dict it holds.
save_obj(obj) ==
    { <<kp, { <<kv, { <<p, obj[kp][kv][p]>> : p \in DOMAIN obj[kp][kv] }>>
              : kv \in DOMAIN obj[kp] }>>
      : kp \in DOMAIN obj }

\* The dict a stream of items stands for.
Items(stream) ==
    [k \in { t[1] : t \in stream } |-> (CHOOSE t \in stream : t[1] = k)[2]]

\* pickle.load: the dicts are rebuilt from the streams, innermost last.
load_obj(stream) ==
    LET outer == Items(stream) IN
    [kp \in DOMAIN outer |->
        LET middle == Items(outer[kp]) IN
        [kv \in DOMAIN middle |-> Items(middle[kv])]]

\* No answers file on disk.
NoFile == [exists |-> FALSE, bytes |-> {}]

\* The call has ended: exhausted, raised by validate, or broken off by an
\* internal exception.
Terminal == status \in {"done", "raised", "crashed"}

Init ==
    /\ schema \in Schemas
    /\ answers = EmptyDict
    /\ questions = EmptyDict
    /\ keys = EmptyDict
    /\ doc = EmptyDict
    /\ docIn = EmptyDict
    /\ mode = ""
    /\ status = "idle"
    /\ exc = ""
    /\ cur = 1
    /\ pending = <<>>
    /\ out = <<>>
    /\ ev = NoEvent
    /\ calls = 0
    /\ unsaved = FALSE
    /\ file = NoFile
    /\ dumped = EmptyDict
    /\ gen = 1
    /\ con = NoSession
    /\ hist = <<>>
    /\ replay = 0

\* The first lines of iter_errors, run when its consumer m asks for the
\* first error of instance d.
Begin(m, d) ==
    /\ status = "idle"
    /\ calls' = calls + 1
    /\ unsaved' = FALSE
    /\ mode' = m
    /\ doc' = d
    /\ docIn' = d
    /\ questions' = EmptyDict
    /\ keys' = EmptyDict
    /\ status' = "running"
    /\ exc' = ""
    /\ cur' = 1
    /\ pending' = <<>>
    /\ out' = <<>>
    /\ ev' = NoEvent
    /\ UNCHANGED <<con, schema, answers, file, dumped, gen, hist>>

\* QueristValidator.validate(instance): raises the first error yielded.
validate ==
    /\ calls < MaxCalls
    /\ \E d \in Docs : Begin("validate", d)
    /\ UNCHANGED replay

\* QueristValidator.iter_errors(instance), consumed to exhaustion.
iter_errors ==
    /\ calls < MaxCalls
    /\ \E d \in Docs : Begin("iter_errors", d)
    /\ UNCHANGED replay

\* The signals the generator has at hand: those pending from the property it
\* is descending into, else those of the next position that emits.
Stream ==
    IF pending # <<>> THEN pending
    ELSE LET sch == TheSchema
             j == NextPos(cur, doc, sch) IN
         IF j = 0 THEN <<>>
         ELSE IF Plan(sch)[j].kind = "check"
         THEN LET prop == Plan(sch)[j].prop
                  errs == Violations(doc[prop], sch.properties[prop])
              IN [k \in 1..Len(errs) |-> PropertyError(prop, errs[k])]
         ELSE <<SignalAt(j, doc, sch)>>

\* validate goes on consuming the generator after an error was yielded.
Turn_eager(e, rest, next, b) ==
    /\ questions' = b.questions
    /\ answers' = b.answers
    /\ keys' = b.keys
    /\ doc' = b.inst
    /\ ev' = Event(e, b)
    /\ unsaved' = (unsaved \/ (b.asked /\ (b.kv = None \/ b.value = None)))
    /\ pending' = rest
    /\ cur' = next
    /\ IF b.exc # ""
       THEN status' = "crashed" /\ exc' = b.exc /\ out' = out
       ELSE status' = "running" /\ exc' = "" /\ out' = out \o b.yielded

\* The state after the loop body returned b for signal e: the caches and
\* the instance as b leaves them; an internal exception ends the call,
\* validate raises the first error yielded.
Turn(e, rest, next, b) ==
    /\ questions' = b.questions
    /\ answers' = b.answers
    /\ keys' = b.keys
    /\ doc' = b.inst
    /\ ev' = Event(e, b)
    /\ unsaved' = (unsaved \/ (b.asked /\ (b.kv = None \/ b.value = None)))
    /\ pending' = rest
    /\ cur' = next
    /\ IF b.exc # ""
       THEN status' = "crashed" /\ exc' = b.exc /\ out' = out
       ELSE IF mode = "validate" /\ b.yielded # <<>>
       THEN status' = "raised" /\ exc' = "" /\ out' = out \o <<Head(b.yielded)>>
       ELSE status' = "running" /\ exc' = "" /\ out' = out \o b.yielded

\* The replies the question of signal e may give.
RepliesFor(e) ==
    AskReplies(Question(EmptyDict, "", Get(get_property_schema(e), "enum", <<>>),
                        FALSE, FALSE))

TurnOn(stream, next) ==
    \E reply \in RepliesFor(Head(stream)) :
        Turn(Head(stream), Tail(stream), next,
             iter_errors_body(questions, answers, keys, Head(stream), doc,
                              TheSchema, reply))

\* One turn of the loop of iter_errors: the next signal of the extended
\* validator is taken and processed.
NextError ==
    /\ status = "running"
    /\ Stream # <<>>
    /\ TurnOn(Stream, IF pending # <<>> THEN cur ELSE NextPos(cur, doc, TheSchema) + 1)
    /\ UNCHANGED <<con, schema, docIn, mode, calls, file, dumped, gen, hist, replay>>

\* The extended validator's stream is exhausted: the call ends.
Exhausted ==
    /\ status = "running"
    /\ Stream = <<>>
    /\ status' = "done"
    /\ UNCHANGED <<con, schema, answers, questions, keys, doc, docIn, mode, exc, cur,
                   pending, out, ev, calls, unsaved, file, dumped, gen, hist, replay>>

\* The caller has taken the outcome of the call and lets go of the document
\* and of the generator; the validator keeps its caches.
Return ==
    /\ Terminal
    /\ status' = "idle"
    /\ doc' = EmptyDict
    /\ docIn' = EmptyDict
    /\ mode' = ""
    /\ exc' = ""
    /\ cur' = 1
    /\ pending' = <<>>
    /\ out' = <<>>
    /\ ev' = NoEvent
    /\ unsaved' = FALSE
    /\ UNCHANGED <<con, schema, answers, questions, keys, calls, file, dumped, gen, replay>>

Release == Return /\ UNCHANGED hist

Next == validate \/ iter_errors \/ NextError \/ Exhausted \/ Release

Spec == Init /\ [][Next]_vars

\* --------------------------------------------- dump, reload and replay
\* The records of a batch (testAnswersFile): documents whose owner and tags
\* are in order and whose initial_amount is left to its static default,
\* with or without an identity value and the enumerated account_type.
Records ==
    { MkDoc([account_name |-> n, account_type |-> t, initial_amount |-> Absent,
             fk_owner |-> I(1), tags |-> L(<<I(1)>>)]) :
        n \in {S("a"), S("b"), None}, t \in {Absent, S("OW")} }

\* validator.validate(record) on the validator constructed first, before
\* the answers are dumped.
Record ==
    /\ gen = 1
    /\ ~file.exists
    /\ Len(hist) < MaxCalls
    /\ \E d \in Records : Begin("validate", d)
    /\ UNCHANGED replay

\* The caller keeps the outcome of a call on the first validator (the input
\* record, the resolved document, how the call ended, whether every answer
\* asked was stored) and lets go of the document.
Keep ==
    /\ Return
    /\ hist' = IF gen = 1
               THEN Append(hist, [inp |-> docIn, res |-> doc, status |-> status,
                                  exc |-> exc, clean |-> ~unsaved])
               ELSE hist

\* QueristValidator.dump_answers(answers_file)
dump_answers ==
    /\ status = "idle"
    /\ gen = 1
    /\ hist # <<>>
    /\ ~file.exists
    /\ file' = [exists |-> TRUE, bytes |-> save_obj(answers)]
    /\ dumped' = answers
    /\ UNCHANGED <<con, schema, answers, questions, keys, doc, docIn, mode, status, exc,
                   cur, pending, out, ev, calls, unsaved, gen, hist, replay>>

\* The fresh validator starts without answers although the file exists.
NewValidator_nofile ==
    /\ status = "idle"
    /\ gen = 1
    /\ hist # <<>>
    /\ gen' = 2
    /\ answers' = EmptyDict
    /\ keys' = EmptyDict
    /\ questions' = EmptyDict
    /\ calls' = 0
    /\ UNCHANGED <<con, schema, doc, docIn, mode, status, exc, cur, pending, out, ev,
                   unsaved, file, dumped, hist, replay>>

\* QueristValidator.__init__(schema, question_class, answers_file): a fresh
\* validator over the same schema; its answers are those of the file when
\* the file exists, none otherwise.
NewValidator ==
    /\ status = "idle"
    /\ gen = 1
    /\ hist # <<>>
    /\ gen' = 2
    /\ answers' = IF file.exists THEN load_obj(file.bytes) ELSE EmptyDict
    /\ keys' = EmptyDict
    /\ questions' = EmptyDict
    /\ calls' = 0
    /\ UNCHANGED <<con, schema, doc, docIn, mode, status, exc, cur, pending, out, ev,
                   unsaved, file, dumped, hist, replay>>

\* validate on the fresh validator, of the next of the records in order.
Replay ==
    /\ gen = 2
    /\ replay < Len(hist)
    /\ Begin("validate", hist[replay + 1].inp)
    /\ replay' = replay + 1

NextReplay ==
    Record \/ NextError \/ Exhausted \/ Keep \/ dump_answers \/ NewValidator \/ Replay

SpecReplay == Init /\ [][NextReplay]_vars

\* ------------------------------------------------------ asking on a console
\* What is typed on the console: the escape command, nothing, a member of
\* the enum, numbers within and beyond the enum, and other text.
ConsoleInputs ==
    { CMD_BREAK_ANSWER, S(<<>>), S(<<"O", "W">>), S(<<"1">>), S(<<"2">>), S(<<"7">>),
      S(<<"a", "b">>) }

\* Default blocks that show the choices, without and with a dictionary of
\* labels (for one of the values).
ChoiceDefaults ==
    { [question |-> S(<<"?">>), show_choices |-> TRUE],
      [question |-> S(<<"?">>), show_choices |-> TRUE,
       dictionary |-> [v \in {S(<<"O", "W">>)} |-> S(<<"o", "w", "n">>)]] }

\* The Questions asked: with and without enum, with a static default that
\* is a text, zero or undeclared, required or not, of each property type.
Questions ==
    { Question(IF dv = None THEN [question |-> S(<<"?">>)]
               ELSE [question |-> S(<<"?">>), value |-> dv],
               t, e, r, FALSE) :
        dv \in {None, S(<<"d">>), I(0)},
        t \in {"string", "integer", "boolean", "object"},
        e \in {<<>>, <<S(<<"O", "W">>), S(<<"C", "C">>)>>},
        r \in BOOLEAN }
    \cup
    { Question(default, "string", <<S(<<"O", "W">>), S(<<"C", "C">>)>>, r, FALSE) :
        default \in ChoiceDefaults, r \in BOOLEAN }

\* ConsoleQuestion.ask is called (from the console, or as AutoAnswers).
AskBegin ==
    /\ con.pc = "idle"
    /\ \E question \in Questions, auto \in BOOLEAN :
          con' = Session("reading", question, auto, 0, None, None, "")
    /\ UNCHANGED <<schema, answers, questions, keys, doc, docIn, mode, status, exc,
                   cur, pending, out, ev, calls, unsaved, file, dumped, gen, hist,
                   replay>>

\* ConsoleQuestion._input: one line is read and the loop body runs on it.
ConsoleInput ==
    /\ con.pc = "reading" /\ ~con.auto
    /\ \E answer \in ConsoleInputs : con' = Read(con, answer)
    /\ UNCHANGED <<schema, answers, questions, keys, doc, docIn, mode, status, exc,
                   cur, pending, out, ev, calls, unsaved, file, dumped, gen, hist,
                   replay>>

\* AutoAnswers._input: the input is generated and the loop body runs on it.
AutoInput ==
    /\ con.pc = "reading" /\ con.auto
    /\ \E answer \in random_answer(con.question) : con' = Read(con, answer)
    /\ UNCHANGED <<schema, answers, questions, keys, doc, docIn, mode, status, exc,
                   cur, pending, out, ev, calls, unsaved, file, dumped, gen, hist,
                   replay>>

\* ask has returned or raised; the caller takes the outcome.
AskEnd ==
    /\ con.pc \in {"returned", "raised"}
    /\ con' = NoSession
    /\ UNCHANGED <<schema, answers, questions, keys, doc, docIn, mode, status, exc,
                   cur, pending, out, ev, calls, unsaved, file, dumped, gen, hist,
                   replay>>

NextAsk == AskBegin \/ ConsoleInput \/ AutoInput \/ AskEnd

SpecAsk == Init /\ [][NextAsk]_vars

\* ------------------------------------------------------------ observations

\* The step is a turn of the loop of iter_errors (the generator advanced).
Turned == status = "running" /\ <<cur, pending>>' # <<cur, pending>>

PathOf(prop) == ContainerPath \o <<prop>>

\* The default block of a property of the container, EmptyDict when none.
DefaultOf(prop) ==
    Get(Get(TheSchema.properties, prop, EmptyDict), "default", EmptyDict)

HasDefault(prop) ==
    prop \in DOMAIN TheSchema.properties /\ "default" \in DOMAIN TheSchema.properties[prop]

QuestionBacked(prop) == HasDefault(prop) /\ "question" \in DOMAIN DefaultOf(prop)

StaticOnly(prop) ==
    HasDefault(prop) /\ "question" \notin DOMAIN DefaultOf(prop)
    /\ "value" \in DOMAIN DefaultOf(prop)

\* The answer cache holds an answer for (key_path, identity value, property).
Cached(ans, kp, kv, prop) ==
    kp \in DOMAIN ans /\ kv \in DOMAIN ans[kp] /\ prop \in DOMAIN ans[kp][kv]

\* The identity value the document holds: defined when the schema marks an
\* identity property and the document has it.
HasIdentity(inst) == schema.keyed /\ "account_name" \in DOMAIN inst

\* Every (key_path, identity value, property) answered in ans.
Entries(ans) ==
    UNION { UNION { { <<kp, kv, p>> : p \in DOMAIN ans[kp][kv] } : kv \in DOMAIN ans[kp] }
            : kp \in DOMAIN ans }

\* ------------------------------------------------------------------ claims

\* C1: in a container with an identity property and a non-null identity
\* value, a turn that resolves a question-backed property for which the
\* answer cache already holds an answer under (container path, identity
\* value) writes that cached answer and does not invoke Question.ask; a
\* turn that finds no cached answer invokes ask (once); and an answer, once
\* cached, stays the same in every later step, of this or of a later call.
C1_CacheHit ==
    [][ /\ (Turned /\ HasIdentity(doc) /\ doc["account_name"] # None
            /\ ev'.resolved /\ QuestionBacked(ev'.prop))
           => IF Cached(answers, ContainerPath, doc["account_name"], ev'.prop)
              THEN /\ ~ev'.asked
                   /\ ev'.prop \in DOMAIN doc'
                   /\ doc'[ev'.prop] = answers[ContainerPath][doc["account_name"]][ev'.prop]
              ELSE ev'.asked
        /\ \A t \in Entries(answers) :
              /\ t \in Entries(answers')
              /\ answers'[t[1]][t[2]][t[3]] = answers[t[1]][t[2]][t[3]]
      ]_vars

\* C1 witness: in a second call, a property was resolved from the cache
\* under the identity value "a" without asking.
C1_Witness ==
    /\ calls = 2
    /\ ev.hit /\ ~ev.asked /\ ev.wrote
    /\ ev.kv = S("a")
    /\ ev.prop = "account_type"
    /\ doc["account_type"] = answers[ContainerPath][S("a")]["account_type"]


\* A required error was yielded for property p.
RequiredYielded(p) ==
    \E i \in DOMAIN out : out[i].cls = "RequiredError" /\ out[i].at = PathOf(p)

\* An error was yielded for the signal of property path pp.
YieldedAt(pp) == \E i \in DOMAIN out : out[i].at = pp

\* The violations the base check finds at property p of inst.
Broken(inst, p) ==
    IF p \in DOMAIN inst THEN Violations(inst[p], TheSchema.properties[p]) ELSE <<>>

\* The document has every property of the schema and violates nothing.
Conformant(inst) ==
    \A p \in Range(PropOrder) : p \in DOMAIN inst /\ Broken(inst, p) = <<>>

\* C2 as stated, for the calls of validate that end without an internal
\* exception: a required property that is absent and has no default block
\* makes validate raise, with no resolution attempted for it; a required
\* property that is absent and has a default block gets no required error
\* and is present in the document afterwards.
C2_Original ==
    (mode = "validate" /\ status \in {"done", "raised"}) =>
        \A p \in Range(Required) :
            p \notin DOMAIN docIn =>
                IF ~HasDefault(p)
                THEN status = "raised" /\ PathOf(p) \notin DOMAIN questions
                ELSE ~RequiredYielded(p) /\ p \in DOMAIN doc

\* C2 amended: a required property that is absent and has no default block
\* keeps validate from returning normally, and no resolution is attempted
\* for it; a required property that is absent and has a default block gets no
\* required error, and is present in the document once its signal has been
\* resolved, in particular whenever validate returns without raising.
C2_Required ==
    (mode = "validate" /\ Terminal) =>
        \A p \in Range(Required) :
            p \notin DOMAIN docIn =>
                IF ~HasDefault(p)
                THEN /\ status # "done"
                     /\ PathOf(p) \notin DOMAIN questions
                     /\ p \notin DOMAIN doc
                ELSE /\ ~RequiredYielded(p)
                     /\ status = "done" => p \in DOMAIN doc
                     /\ (ev.path = PathOf(p) /\ ev.resolved /\ status # "crashed")
                            => p \in DOMAIN doc

\* C2 witness: validate returned without raising for a document that lacked
\* the required account_type, which was filled on its required error.
C2_Witness ==
    /\ mode = "validate" /\ status = "done"
    /\ schema.keywords[1] = "required"
    /\ "account_type" \notin DOMAIN docIn
    /\ "account_type" \in DOMAIN doc
    /\ "fk_owner" \in DOMAIN docIn

\* C3: when iter_errors has been consumed (to exhaustion, or until it broke
\* off on an internal exception) for a document that lacked a property whose
\* default block has a static value and no question, the property holds
\* exactly that static value and no error was yielded for it.
C3_Static ==
    (mode = "iter_errors" /\ status \in {"done", "crashed"}) =>
        \A p \in Range(PropOrder) :
            (StaticOnly(p) /\ p \notin DOMAIN docIn) =>
                /\ p \in DOMAIN doc
                /\ doc[p] = DefaultOf(p).value
                /\ ~YieldedAt(PathOf(p))

\* C4: a turn on a property error of a property whose default block has a
\* question overwrites the value with the value obtained through the
\* question path (a cached answer, or a reply of Question.ask).
C4_QuestionPath ==
    [][ (Turned /\ ev'.cls = "PropertyError" /\ QuestionBacked(ev'.prop)) =>
            /\ ev'.wrote
            /\ ev'.asked \/ ev'.hit
            /\ ev'.prop \in DOMAIN doc'
            /\ doc'[ev'.prop] = ev'.value
      ]_vars

\* C5: while a call runs on a document that is fully populated and conforms
\* to the schema, its only step ends it without an error (validate does not
\* raise), with no turn of the loop (no Question asked), and with the
\* document and the answer cache unchanged.
C5_Conformant ==
    [][ (status = "running" /\ Conformant(docIn)) =>
            /\ status' = "done"
            /\ out' = <<>>
            /\ ev' = NoEvent
            /\ doc' = docIn
            /\ answers' = answers
      ]_vars

\* C5 witness: a call on a conformant document has ended.
C5_Witness ==
    /\ status = "done"
    /\ DOMAIN docIn # {}
    /\ Conformant(docIn)
    /\ doc = docIn /\ out = <<>>

\* C6: a turn that resolves a question-backed default in a container whose
\* schema marks no identity property, or whose identity value is null,
\* invokes Question.ask without an identity value, stores no answer and
\* writes the resolved value to the document.
C6_NoIdentity ==
    [][ (Turned /\ ev'.resolved /\ QuestionBacked(ev'.prop)
         /\ (~schema.keyed
             \/ ("account_name" \in DOMAIN doc /\ doc["account_name"] = None))) =>
            /\ ev'.asked
            /\ ev'.kv = None
            /\ ev'.wrote
            /\ ev'.prop \in DOMAIN doc'
            /\ doc'[ev'.prop] = ev'.value
            /\ Entries(answers') = Entries(answers)
      ]_vars

\* Every property with a default block is present and valid in inst, and
\* no violation in inst is on a value whose fragment has a default block.
DefaultsSettled(inst) ==
    \A p \in Range(PropOrder) :
        /\ HasDefault(p) => (p \in DOMAIN inst /\ Broken(inst, p) = <<>>)
        /\ \A k \in DOMAIN Broken(inst, p) :
              "default" \notin DOMAIN Broken(inst, p)[k].schema

\* C7: when iter_errors has been consumed for a document whose only
\* violations are on values governed by fragments without a default block,
\* it completed without an internal exception and yielded at least one error
\* for each of these violations, at whatever depth below the property.
C7_Surfaces ==
    (mode = "iter_errors" /\ Terminal /\ DefaultsSettled(docIn)) =>
        \A p \in Range(PropOrder) :
            \A k \in DOMAIN Broken(docIn, p) :
                /\ status = "done"
                /\ YieldedAt(PathOf(p) \o Broken(docIn, p)[k].path)

\* C8: a turn in which Question.ask returned null leaves the document as it
\* was (nothing is written) and stores no answer; when the signal was a
\* required error the property is still absent and that error is yielded.
C8_NullAnswer ==
    [][ (Turned /\ ev'.asked /\ ev'.value = None) =>
            /\ doc' = doc
            /\ Entries(answers') = Entries(answers)
            /\ ev'.cls = "RequiredError" =>
                  /\ ev'.prop \notin DOMAIN doc'
                  /\ \E i \in DOMAIN ev'.yielded : ev'.yielded[i].cls = "RequiredError"
      ]_vars

CleanSoFar == \A k \in 1..replay : hist[k].clean

\* The fresh validator was loaded from the dumped file.
Reloaded == gen = 2 /\ file.exists

PropOf(y) == y.at[Len(y.at)]

\* C11: every error that has reached the caller is a base violation of a
\* property's value or a required error, never a DefaultHandler (nor a
\* PropertyError wrapper); a required error that reached the caller is for a
\* required property that is absent from the document and either has no
\* default block or was still absent after its resolution.
C11_Absorbed ==
    \A i \in DOMAIN out :
        /\ out[i].cls \in {"ValidationError", "RequiredError"}
        /\ out[i].cls = "RequiredError" =>
              /\ PropOf(out[i]) \in Range(Required)
              /\ PropOf(out[i]) \notin DOMAIN doc
              /\ ~HasDefault(PropOf(out[i])) \/ out[i].at \in DOMAIN questions
        /\ out[i].cls = "ValidationError" =>
              /\ out[i].validator \in {"type", "enum"}
              /\ out[i].at \in DOMAIN questions

\* C11 witness: iter_errors was consumed for a document that lacked the
\* defaulted account_type and the required fk_owner: the DefaultHandler and
\* the required error of account_type were absorbed, and what reached the
\* caller is the required error of fk_owner and a violation of a value.
C11_Witness ==
    /\ mode = "iter_errors" /\ status = "done"
    /\ "account_type" \notin DOMAIN docIn /\ "account_type" \in DOMAIN doc
    /\ "fk_owner" \notin DOMAIN docIn
    /\ \E i \in DOMAIN out : out[i].cls = "RequiredError" /\ PropOf(out[i]) = "fk_owner"
    /\ \E i \in DOMAIN out : out[i].cls = "ValidationError"
    /\ ~RequiredYielded("account_type")

\* C12: validate raises the first error iter_errors yields (nothing was
\* yielded before it, and it is the first of the errors its turn produces);
\* every turn of validate on a signal whose fragment has a default block
\* resolves it and writes the property, unless an internal exception breaks
\* the call off; and once validate has raised, the only step left hands the
\* outcome to the caller: no signal is taken, no Question is asked, nothing
\* is written and the answers stay as they are.
C12_FirstError ==
    [][ /\ (mode' = "validate" /\ out' # <<>>) =>
              /\ status' = "raised"
              /\ out = <<>>
              /\ out' = <<Head(ev'.yielded)>>
        /\ (mode = "validate" /\ Turned /\ ev'.hadDefault /\ status' # "crashed") =>
              /\ ev'.resolved /\ ev'.wrote
              /\ ev'.prop \in DOMAIN doc'
        /\ (mode = "validate" /\ status = "raised") =>
              /\ status' = "idle"
              /\ ev' = NoEvent
              /\ answers' = answers
      ]_vars

\* C12 witness: validate raised on the null fk_owner after it had filled
\* the absent account_type and initial_amount, and left the item of tags,
\* whose signal follows in the stream, unresolved.
C12_Witness ==
    /\ mode = "validate" /\ status = "raised"
    /\ schema.item_default
    /\ {"account_type", "initial_amount"} \cap DOMAIN docIn = {}
    /\ {"account_type", "initial_amount"} \subseteq DOMAIN doc
    /\ out[1].at = PathOf("fk_owner")
    /\ docIn["tags"] = L(<<S("x")>>)
    /\ Idx(1) \notin DOMAIN doc

\* The properties of the container resolved through a question in the
\* running (or just ended) call.
AskedProps ==
    { p \in Range(PropOrder) :
        /\ PathOf(p) \in DOMAIN questions
        /\ questions[PathOf(p)].kind = "pair"
        /\ questions[PathOf(p)].question.kind = "Question" }

\* The properties answered in ans under identity value kv.
AnsweredFor(ans, kv) ==
    IF ContainerPath \in DOMAIN ans /\ kv \in DOMAIN ans[ContainerPath]
    THEN DOMAIN ans[ContainerPath][kv] ELSE {}

\* validate returned without raising for a document with a non-null
\* identity value.
ReturnedWithIdentity ==
    /\ mode = "validate" /\ status = "done"
    /\ HasIdentity(docIn) /\ docIn["account_name"] # None

KeyFields ==
    { i \in 1..Len(PropOrder) :
        /\ "key_field" \in DOMAIN DefaultOf(PropOrder[i])
        /\ DefaultOf(PropOrder[i]).key_field = TRUE }

\* The first of them, none when there is none.
FirstKeyField ==
    IF KeyFields = {} THEN NoKey
    ELSE PropOrder[CHOOSE i \in KeyFields : \A j \in KeyFields : i <= j]

\* C17: the identity field recorded for a container path is the first
\* property, in declaration order, whose default block sets key_field to a
\* true value, and none when no property does; it is recorded by the first
\* resolution through a question in the container and stays as it is for
\* the rest of the call, and every question-path resolution in the container
\* takes its identity value from that property.
C17_GetKey ==
    [][ /\ \A kp \in DOMAIN keys' : kp = ContainerPath /\ keys'[kp] = FirstKeyField
        /\ status = "running" =>
              \A kp \in DOMAIN keys : kp \in DOMAIN keys' /\ keys'[kp] = keys[kp]
        /\ (Turned /\ (ev'.asked \/ ev'.hit)) =>
              /\ ContainerPath \in DOMAIN keys'
              /\ keys'[ContainerPath] \in DOMAIN doc
              /\ ev'.kv = doc[keys'[ContainerPath]]
      ]_vars

\* C17 witness: two question-path resolutions of one call, the second under
\* the identity value "a", both with account_name as the identity field
\* although account_type sets key_field as well.
C17_Witness ==
    /\ status = "running"
    /\ Cardinality(KeyFields) = 2
    /\ AskedProps = {"account_name", "account_type"}
    /\ keys[ContainerPath] = "account_name"
    /\ ev.asked /\ ev.kv = S("a") /\ ev.prop = "account_type"

\* C19: in every step, of one call or from one call to the next, the
\* answer cache keeps every container path, every identity value and every
\* answer it holds, with the same value; an answer that is new in the cache
\* is the non-null reply of the Question asked in that step; and the start
\* of a call empties the question cache and the identity-field cache and
\* leaves the answer cache as it is.
C19_AppendOnly ==
    [][ /\ \A kp \in DOMAIN answers :
              /\ kp \in DOMAIN answers'
              /\ \A kv \in DOMAIN answers[kp] : kv \in DOMAIN answers'[kp]
        /\ \A t \in Entries(answers) :
              /\ t \in Entries(answers')
              /\ answers'[t[1]][t[2]][t[3]] = answers[t[1]][t[2]][t[3]]
        /\ \A t \in Entries(answers') \ Entries(answers) :
              /\ answers'[t[1]][t[2]][t[3]] # None
              /\ Turned /\ ev'.asked
              /\ t = <<ContainerPath, ev'.kv, ev'.prop>>
              /\ answers'[t[1]][t[2]][t[3]] = ev'.value
        /\ (status = "idle" /\ status' = "running") =>
              /\ answers' = answers
              /\ questions' = EmptyDict
              /\ keys' = EmptyDict
      ]_vars

\* C19 witness: in the second call an answer was stored under the identity
\* value "b" while the answer stored under "a" by the first call is kept.
C19_Witness ==
    /\ calls = 2 /\ status = "running"
    /\ ev.asked /\ ev.kv = S("b") /\ ev.prop = "account_type"
    /\ Cached(answers, ContainerPath, S("a"), "account_type")
    /\ Cached(answers, ContainerPath, S("b"), "account_type")

\* The document inst with value v at the location rel below the container:
\* a property, or an item of an array property.
WriteAt(inst, rel, v) ==
    IF Len(rel) = 1 THEN Put(inst, rel[1], v)
    ELSE Put(inst, rel[1],
             L([i \in DOMAIN inst[rel[1]][2] |->
                   IF Idx(i) = rel[2] THEN v ELSE inst[rel[1]][2][i]]))

\* C18: a turn that writes a resolved value leaves the document as it was
\* except at the location named by the property path of its signal, which
\* holds the resolved value; so for the path of a property and for the path
\* of an item of an array.
C18_Frame ==
    [][ (Turned /\ ev'.wrote) =>
            doc' = WriteAt(doc, SubSeq(ev'.path, Len(ContainerPath) + 1, Len(ev'.path)),
                           ev'.value)
      ]_vars

\* The document satisfies the container schema under the base engine: the
\* required properties are present and no property violates its fragment.
BaseValid(inst) ==
    /\ \A p \in Range(Required) : p \in DOMAIN inst
    /\ \A p \in Range(PropOrder) : Broken(inst, p) = <<>>

\* C20: when iter_errors was consumed to exhaustion and yielded nothing
\* (validate returned without raising), the document as mutated satisfies
\* the schema under the base engine.
C20_Sound ==
    (status = "done" /\ out = <<>>) => BaseValid(doc)

\* C13: on the console, ask has read at most 5 inputs and has not raised;
\* it is still reading only after fewer than 5 inputs, none of them
\* accepted; and when it returns on the fifth input without that input
\* being accepted or the escape command, it returns the empty string.
C13_Bounded ==
    ~con.auto =>
        /\ con.i <= max_iterations
        /\ con.pc # "raised"
        /\ con.pc = "reading" => con.i < max_iterations
        /\ (con.pc = "returned" /\ con.i = max_iterations
            /\ Iteration(con.question, con.input).pc # "returned") =>
                con.answer = S(<<>>)

\* C14: on the console, when ask returns on a blank input it returns the
\* static default if the default block declares one, whatever its value,
\* and null if it declares none and the property is not required; when it
\* returns on the escape command it returns null.
C14_Blank ==
    (~con.auto /\ con.pc = "returned") =>
        /\ (con.input = S(<<>>) /\ con.question.default_value # None) =>
              con.answer = con.question.default_value
        /\ (con.input = S(<<>>) /\ con.question.default_value = None
            /\ ~con.question.required) =>
              con.answer = None
        /\ con.input = CMD_BREAK_ANSWER => con.answer = None

\* The characters of a lowercase word.
Lowercase == {"a", "b", "c", "d", "e", "f", "g", "h", "i", "j", "k", "l", "m",
              "n", "o", "p", "q", "r", "s", "t", "u", "v", "w", "x", "y", "z"}

\* C16: the input AutoAnswers generates is a member of the enum when there
\* is one; otherwise an integer for type integer, a lowercase string of
\* length 10 for type string, a boolean for type boolean, and the empty
\* string for any other type; and its ask returns within 5 inputs.
C16_Auto ==
    (con.auto /\ con.i >= 1) =>
        /\ IF con.question.enum # <<>>
           THEN con.input \in Range(con.question.enum)
           ELSE CASE con.question.type = "integer" -> con.input[1] = "int"
                  [] con.question.type = "string" ->
                        /\ con.input[1] = "str"
                        /\ Len(con.input[2]) = 10
                        /\ \A k \in DOMAIN con.input[2] : con.input[2][k] \in Lowercase
                  [] con.question.type = "boolean" -> con.input[1] = "bool"
                  [] OTHER -> con.input = S(<<>>)
        /\ con.pc # "raised"
        /\ con.i <= max_iterations
        /\ con.pc = "reading" => con.i < max_iterations

\* The positions of the choice list whose text starts with the number typed.
ShownUnder(choices, typed) ==
    { k \in DOMAIN choices :
        /\ Len(choices[k][2]) >= Len(typed[2]) + 2
        /\ SubSeq(choices[k][2], 1, Len(typed[2]) + 2) = typed[2] \o <<".", " ">> }

\* C21: when the choices are shown, the list has one text per value of the
\* enum, numbered from 1 in the order of the enum, and an input that is the
\* number a value is shown under makes ask return that value.
C21_Choices ==
    (~con.auto /\ con.question.kind = "Question" /\ con.question.choices # NoChoices) =>
        /\ Len(con.question.choices) = Len(con.question.enum)
        /\ \A k \in DOMAIN con.question.choices :
              ShownUnder(con.question.choices, S(Numeral(k))) = {k}
        /\ con.i >= 1 =>
              \A k \in ShownUnder(con.question.choices, con.input) :
                  con.pc = "returned" /\ con.answer = con.question.enum[k]

====
